---- MODULE Spec2Model ----
(***************************************************************************)
(* Desalination plant simulator (src/water_desaline.py).                   *)
(*                                                                         *)
(* The program is a Streamlit script: the sidebar widgets supply nine      *)
(* plant parameters, calculate_outputs maps them to six metrics, and the   *)
(* script is re-run from the top whenever one widget changes.  The text    *)
(* and the plot the script renders from the metrics (lines 90-142) assign  *)
(* nothing and are left out.                                               *)
(*                                                                         *)
(* Numbers.  Every quantity is an exact rational <<n, d>> in lowest terms  *)
(* with d > 0; +, -, * and / of the source are RAdd, RSub, RMul and RDiv.  *)
(* The rounding of binary floating point is NOT modelled: the properties   *)
(* below are properties of the formulas over exact arithmetic.             *)
(*                                                                         *)
(* Three specifications share the variables:                               *)
(*   Spec      the script with its widgets (slider ranges, checkboxes);    *)
(*   CoreSpec  calculate_outputs called directly on a wider input domain,  *)
(*             remembering the previous call so that two calls can be      *)
(*             compared;                                                   *)
(*   OptSpec   the grid search over (energy use, treatment efficiency).    *)
(***************************************************************************)
EXTENDS Integers, Sequences, FiniteSets, TLC

VARIABLES
    \* sidebar inputs (lines 17-51)
    feedwater_salinity, energy_use, treatment_efficiency, intake_flow_rate,
    use_plant_capacity, plant_capacity,
    use_carbon_emission_factor, carbon_emission_factor,
    use_chemical_cost, cost_of_chemicals_per_m3,
    use_labor_cost, labor_cost_per_day,
    use_maintenance_cost, maintenance_cost_per_day,
    \* results of the call at line 88
    freshwater_production, waste_brine, energy_cost,
    daily_freshwater_production, carbon_emissions, total_operational_cost,
    \* the previous direct call, [args |-> 9-tuple, out |-> 6-tuple]; args is
    \* <<>> before the first call
    prev,
    \* grid search
    opt_pc, opt_i, opt_j, min_cost, optimal_efficiency, optimal_energy_use

\* the nine arguments, in the order of calculate_outputs' parameters
inputVars ==
    <<feedwater_salinity, energy_use, treatment_efficiency, plant_capacity,
      intake_flow_rate, carbon_emission_factor, cost_of_chemicals_per_m3,
      labor_cost_per_day, maintenance_cost_per_day>>

checkboxVars ==
    <<use_plant_capacity, use_carbon_emission_factor, use_chemical_cost,
      use_labor_cost, use_maintenance_cost>>

outputVars ==
    <<freshwater_production, waste_brine, energy_cost,
      daily_freshwater_production, carbon_emissions, total_operational_cost>>

optVars ==
    <<opt_pc, opt_i, opt_j, min_cost, optimal_efficiency, optimal_energy_use>>

vars == <<inputVars, checkboxVars, outputVars, prev, optVars>>

(***************************************************************************)
(* Exact rational arithmetic.                                              *)
(***************************************************************************)
Abs(x) == IF x < 0 THEN -x ELSE x

RECURSIVE GCD(_, _)
GCD(a, b) == IF b = 0 THEN a ELSE GCD(b, a % b)

\* the rational n/d in lowest terms, d > 0
R(n, d) ==
    LET g == GCD(Abs(n), Abs(d))
        s == IF d < 0 THEN -1 ELSE 1
    IN  <<s * (n \div g), s * (d \div g)>>

RMul(a, b) ==
    LET g1 == GCD(Abs(a[1]), b[2])
        g2 == GCD(Abs(b[1]), a[2])
    IN  R((a[1] \div g1) * (b[1] \div g2), (a[2] \div g2) * (b[2] \div g1))

RDiv(a, b) == RMul(a, R(b[2], b[1]))

RAdd(a, b) ==
    LET g == GCD(a[2], b[2])
    IN  R(a[1] * (b[2] \div g) + b[1] * (a[2] \div g), a[2] * (b[2] \div g))

RSub(a, b) == RAdd(a, <<-b[1], b[2]>>)

RLt(a, b) ==
    LET g == GCD(a[2], b[2])
    IN  a[1] * (b[2] \div g) < b[1] * (a[2] \div g)

RLe(a, b) == a = b \/ RLt(a, b)

Zero == R(0, 1)

(***************************************************************************)
(* Constants of the script.                                                *)
(***************************************************************************)
energy_cost_per_kwh == R(12, 100)

\* Python's None, kept apart from every number by its zero denominator
None == <<0, 0>>

\* float('inf'): RLt(a, Inf) holds for every rational a
Inf == <<1, 0>>

(***************************************************************************)
(* calculate_outputs, one operator per assignment of its body, and the     *)
(* function itself returning the six metrics in the order of its return    *)
(* statement.                                                              *)
(***************************************************************************)
\* a slip: the rejected share of the intake instead of the treated share
calc_freshwater_production_rejected(p_treatment_efficiency, p_intake_flow_rate) ==
    RMul(RDiv(RSub(R(100, 1), p_treatment_efficiency), R(100, 1)),
         p_intake_flow_rate)

\* a slip: the efficiency clamped into [0, 100] before use
calc_freshwater_production_clamped(p_treatment_efficiency, p_intake_flow_rate) ==
    LET clamped == IF RLt(p_treatment_efficiency, Zero) THEN Zero
                   ELSE IF RLt(R(100, 1), p_treatment_efficiency)
                            THEN R(100, 1)
                            ELSE p_treatment_efficiency
    IN  RMul(RDiv(clamped, R(100, 1)), p_intake_flow_rate)

\* line 64: treatment_efficiency / 100 * intake_flow_rate
calc_freshwater_production(p_treatment_efficiency, p_intake_flow_rate) ==
    RMul(RDiv(p_treatment_efficiency, R(100, 1)), p_intake_flow_rate)

\* a slip: the operands of the subtraction exchanged
calc_waste_brine_swapped(p_intake_flow_rate, l_freshwater_production) ==
    RSub(l_freshwater_production, p_intake_flow_rate)

\* line 67: intake_flow_rate - freshwater_production
calc_waste_brine(p_intake_flow_rate, l_freshwater_production) ==
    RSub(p_intake_flow_rate, l_freshwater_production)

\* a slip: the tariff alone, energy_use forgotten
calc_energy_cost_flat(p_energy_use) ==
    energy_cost_per_kwh

\* line 70: energy_use * energy_cost_per_kwh
calc_energy_cost(p_energy_use) ==
    RMul(p_energy_use, energy_cost_per_kwh)

\* a slip: a twelve-hour day
calc_daily_freshwater_production_half(l_freshwater_production) ==
    RMul(l_freshwater_production, R(12, 1))

\* line 73: freshwater_production * 24
calc_daily_freshwater_production(l_freshwater_production) ==
    RMul(l_freshwater_production, R(24, 1))

\* a slip: the emission factor added instead of multiplied
calc_carbon_emissions_added(p_energy_use, l_daily_freshwater_production, p_carbon_emission_factor) ==
    LET l_daily_energy_use == RMul(p_energy_use, l_daily_freshwater_production)
    IN  RAdd(l_daily_energy_use, p_carbon_emission_factor)

\* lines 76-77: daily_energy_use = energy_use * daily_freshwater_production;
\*              carbon_emissions = daily_energy_use * carbon_emission_factor
calc_carbon_emissions(p_energy_use, l_daily_freshwater_production, p_carbon_emission_factor) ==
    LET l_daily_energy_use == RMul(p_energy_use, l_daily_freshwater_production)
    IN  RMul(l_daily_energy_use, p_carbon_emission_factor)

\* line 80: cost_of_chemicals_per_m3 * daily_freshwater_production
calc_chemical_cost(p_cost_of_chemicals_per_m3, l_daily_freshwater_production) ==
    RMul(p_cost_of_chemicals_per_m3, l_daily_freshwater_production)

\* a slip: energy cost and daily production added instead of multiplied
calc_total_operational_cost_added(l_energy_cost, l_daily_freshwater_production, l_chemical_cost, p_labor_cost_per_day, p_maintenance_cost_per_day) ==
    RAdd(RAdd(RAdd(RAdd(l_energy_cost, l_daily_freshwater_production),
                   l_chemical_cost),
              p_labor_cost_per_day),
         p_maintenance_cost_per_day)

\* a slip: the energy term subtracted
calc_total_operational_cost_credit(l_energy_cost, l_daily_freshwater_production, l_chemical_cost, p_labor_cost_per_day, p_maintenance_cost_per_day) ==
    RAdd(RAdd(RSub(l_chemical_cost,
                   RMul(l_energy_cost, l_daily_freshwater_production)),
              p_labor_cost_per_day),
         p_maintenance_cost_per_day)

\* line 83: (energy_cost * daily_freshwater_production) + chemical_cost
\*          + labor_cost_per_day + maintenance_cost_per_day
calc_total_operational_cost(l_energy_cost, l_daily_freshwater_production, l_chemical_cost, p_labor_cost_per_day, p_maintenance_cost_per_day) ==
    RAdd(RAdd(RAdd(RMul(l_energy_cost, l_daily_freshwater_production),
                   l_chemical_cost),
              p_labor_cost_per_day),
         p_maintenance_cost_per_day)

\* a slip: the energy cost made to depend on the feedwater salinity
calculate_outputs_saline(p_feedwater_salinity, p_energy_use, p_treatment_efficiency, p_plant_capacity, p_intake_flow_rate, p_carbon_emission_factor, p_cost_of_chemicals_per_m3, p_labor_cost_per_day, p_maintenance_cost_per_day) ==
    LET l_freshwater_production ==
            calc_freshwater_production(p_treatment_efficiency,
                                       p_intake_flow_rate)
        l_waste_brine ==
            calc_waste_brine(p_intake_flow_rate, l_freshwater_production)
        l_energy_cost ==
            RMul(calc_energy_cost(p_energy_use),
                 RDiv(p_feedwater_salinity, R(35000, 1)))
        l_daily_freshwater_production ==
            calc_daily_freshwater_production(l_freshwater_production)
        l_carbon_emissions ==
            calc_carbon_emissions(p_energy_use, l_daily_freshwater_production,
                                  p_carbon_emission_factor)
        l_chemical_cost ==
            calc_chemical_cost(p_cost_of_chemicals_per_m3,
                               l_daily_freshwater_production)
        l_total_operational_cost ==
            calc_total_operational_cost(l_energy_cost,
                                        l_daily_freshwater_production,
                                        l_chemical_cost, p_labor_cost_per_day,
                                        p_maintenance_cost_per_day)
    IN  <<l_freshwater_production, l_waste_brine, l_energy_cost,
          l_daily_freshwater_production, l_carbon_emissions,
          l_total_operational_cost>>

calculate_outputs(p_feedwater_salinity, p_energy_use, p_treatment_efficiency, p_plant_capacity, p_intake_flow_rate, p_carbon_emission_factor, p_cost_of_chemicals_per_m3, p_labor_cost_per_day, p_maintenance_cost_per_day) ==
    LET l_freshwater_production ==
            calc_freshwater_production(p_treatment_efficiency,
                                       p_intake_flow_rate)
        l_waste_brine ==
            calc_waste_brine(p_intake_flow_rate, l_freshwater_production)
        l_energy_cost == calc_energy_cost(p_energy_use)
        l_daily_freshwater_production ==
            calc_daily_freshwater_production(l_freshwater_production)
        l_carbon_emissions ==
            calc_carbon_emissions(p_energy_use, l_daily_freshwater_production,
                                  p_carbon_emission_factor)
        l_chemical_cost ==
            calc_chemical_cost(p_cost_of_chemicals_per_m3,
                               l_daily_freshwater_production)
        l_total_operational_cost ==
            calc_total_operational_cost(l_energy_cost,
                                        l_daily_freshwater_production,
                                        l_chemical_cost, p_labor_cost_per_day,
                                        p_maintenance_cost_per_day)
    IN  <<l_freshwater_production, l_waste_brine, l_energy_cost,
          l_daily_freshwater_production, l_carbon_emissions,
          l_total_operational_cost>>

(***************************************************************************)
(* One run of the script body on the given widget values: the inputs are   *)
(* bound (lines 17-51) and the six module-level results are assigned from  *)
(* the call at line 88.                                                    *)
(***************************************************************************)
Run(fs, eu, te, pc, ifr, cef, cc, lc, mc) ==
    /\ feedwater_salinity' = fs
    /\ energy_use' = eu
    /\ treatment_efficiency' = te
    /\ plant_capacity' = pc
    /\ intake_flow_rate' = ifr
    /\ carbon_emission_factor' = cef
    /\ cost_of_chemicals_per_m3' = cc
    /\ labor_cost_per_day' = lc
    /\ maintenance_cost_per_day' = mc
    /\ \E o \in {calculate_outputs(fs, eu, te, pc, ifr, cef, cc, lc, mc)} :
           /\ freshwater_production' = o[1]
           /\ waste_brine' = o[2]
           /\ energy_cost' = o[3]
           /\ daily_freshwater_production' = o[4]
           /\ carbon_emissions' = o[5]
           /\ total_operational_cost' = o[6]

(***************************************************************************)
(* The widgets.  Each slider offers min, min+step, ..., max; the model     *)
(* lets the user pick between two of these positions, the default and one  *)
(* end of the range.                                                       *)
(***************************************************************************)
feedwater_salinity_default == R(35000, 1)
feedwater_salinity_choices == {R(1000, 1), R(35000, 1)}

energy_use_default == R(35, 10)
energy_use_choices == {R(35, 10), R(10, 1)}

treatment_efficiency_default == R(50, 1)
treatment_efficiency_choices == {R(30, 1), R(50, 1)}

intake_flow_rate_default == R(100, 1)
intake_flow_rate_choices == {R(100, 1), R(500, 1)}

plant_capacity_default == R(10000, 1)
plant_capacity_choices == {R(10000, 1), R(50000, 1)}

carbon_emission_factor_default == R(5, 10)
carbon_emission_factor_choices == {R(1, 10), R(5, 10)}

cost_of_chemicals_per_m3_default == R(25, 100)
cost_of_chemicals_per_m3_choices == {R(25, 100), R(1, 1)}

labor_cost_per_day_default == R(500, 1)
labor_cost_per_day_choices == {R(100, 1), R(500, 1)}

maintenance_cost_per_day_default == R(200, 1)
maintenance_cost_per_day_choices == {R(200, 1), R(1000, 1)}

optIdle ==
    /\ opt_pc = "idle"
    /\ opt_i = 0
    /\ opt_j = 0
    /\ min_cost = Inf
    /\ optimal_efficiency = None
    /\ optimal_energy_use = None

\* first run of the script: every widget at its default, every box ticked
Init ==
    /\ feedwater_salinity = feedwater_salinity_default
    /\ energy_use = energy_use_default
    /\ treatment_efficiency = treatment_efficiency_default
    /\ intake_flow_rate = intake_flow_rate_default
    /\ use_plant_capacity = TRUE
    /\ plant_capacity = plant_capacity_default
    /\ use_carbon_emission_factor = TRUE
    /\ carbon_emission_factor = carbon_emission_factor_default
    /\ use_chemical_cost = TRUE
    /\ cost_of_chemicals_per_m3 = cost_of_chemicals_per_m3_default
    /\ use_labor_cost = TRUE
    /\ labor_cost_per_day = labor_cost_per_day_default
    /\ use_maintenance_cost = TRUE
    /\ maintenance_cost_per_day = maintenance_cost_per_day_default
    /\ \E o \in {calculate_outputs(feedwater_salinity_default,
                    energy_use_default, treatment_efficiency_default,
                    plant_capacity_default, intake_flow_rate_default,
                    carbon_emission_factor_default,
                    cost_of_chemicals_per_m3_default,
                    labor_cost_per_day_default,
                    maintenance_cost_per_day_default)} :
           /\ freshwater_production = o[1]
           /\ waste_brine = o[2]
           /\ energy_cost = o[3]
           /\ daily_freshwater_production = o[4]
           /\ carbon_emissions = o[5]
           /\ total_operational_cost = o[6]
    /\ prev = [args |-> <<>>, out |-> <<>>]
    /\ optIdle

SetFeedwaterSalinity ==
    \E v \in feedwater_salinity_choices :
        /\ v # feedwater_salinity
        /\ Run(v, energy_use, treatment_efficiency, plant_capacity,
               intake_flow_rate, carbon_emission_factor,
               cost_of_chemicals_per_m3, labor_cost_per_day,
               maintenance_cost_per_day)
        /\ UNCHANGED <<checkboxVars, prev, optVars>>

SetEnergyUse ==
    \E v \in energy_use_choices :
        /\ v # energy_use
        /\ Run(feedwater_salinity, v, treatment_efficiency, plant_capacity,
               intake_flow_rate, carbon_emission_factor,
               cost_of_chemicals_per_m3, labor_cost_per_day,
               maintenance_cost_per_day)
        /\ UNCHANGED <<checkboxVars, prev, optVars>>

SetTreatmentEfficiency ==
    \E v \in treatment_efficiency_choices :
        /\ v # treatment_efficiency
        /\ Run(feedwater_salinity, energy_use, v, plant_capacity,
               intake_flow_rate, carbon_emission_factor,
               cost_of_chemicals_per_m3, labor_cost_per_day,
               maintenance_cost_per_day)
        /\ UNCHANGED <<checkboxVars, prev, optVars>>

SetIntakeFlowRate ==
    \E v \in intake_flow_rate_choices :
        /\ v # intake_flow_rate
        /\ Run(feedwater_salinity, energy_use, treatment_efficiency,
               plant_capacity, v, carbon_emission_factor,
               cost_of_chemicals_per_m3, labor_cost_per_day,
               maintenance_cost_per_day)
        /\ UNCHANGED <<checkboxVars, prev, optVars>>

\* lines 23-27: unticked, the parameter is None; ticked, the slider appears
\* at its default position
TogglePlantCapacity ==
    /\ use_plant_capacity' = ~use_plant_capacity
    /\ Run(feedwater_salinity, energy_use, treatment_efficiency,
           IF use_plant_capacity THEN None ELSE plant_capacity_default,
           intake_flow_rate, carbon_emission_factor,
           cost_of_chemicals_per_m3, labor_cost_per_day,
           maintenance_cost_per_day)
    /\ UNCHANGED <<use_carbon_emission_factor, use_chemical_cost,
                   use_labor_cost, use_maintenance_cost, prev, optVars>>

SetPlantCapacity ==
    \E v \in plant_capacity_choices :
        /\ use_plant_capacity
        /\ v # plant_capacity
        /\ Run(feedwater_salinity, energy_use, treatment_efficiency, v,
               intake_flow_rate, carbon_emission_factor,
               cost_of_chemicals_per_m3, labor_cost_per_day,
               maintenance_cost_per_day)
        /\ UNCHANGED <<checkboxVars, prev, optVars>>

\* lines 29-33
ToggleCarbonEmissionFactor ==
    /\ use_carbon_emission_factor' = ~use_carbon_emission_factor
    /\ Run(feedwater_salinity, energy_use, treatment_efficiency,
           plant_capacity, intake_flow_rate,
           IF use_carbon_emission_factor
               THEN Zero ELSE carbon_emission_factor_default,
           cost_of_chemicals_per_m3, labor_cost_per_day,
           maintenance_cost_per_day)
    /\ UNCHANGED <<use_plant_capacity, use_chemical_cost,
                   use_labor_cost, use_maintenance_cost, prev, optVars>>

SetCarbonEmissionFactor ==
    \E v \in carbon_emission_factor_choices :
        /\ use_carbon_emission_factor
        /\ v # carbon_emission_factor
        /\ Run(feedwater_salinity, energy_use, treatment_efficiency,
               plant_capacity, intake_flow_rate, v,
               cost_of_chemicals_per_m3, labor_cost_per_day,
               maintenance_cost_per_day)
        /\ UNCHANGED <<checkboxVars, prev, optVars>>

\* lines 35-39
ToggleChemicalCost ==
    /\ use_chemical_cost' = ~use_chemical_cost
    /\ Run(feedwater_salinity, energy_use, treatment_efficiency,
           plant_capacity, intake_flow_rate, carbon_emission_factor,
           IF use_chemical_cost
               THEN Zero ELSE cost_of_chemicals_per_m3_default,
           labor_cost_per_day, maintenance_cost_per_day)
    /\ UNCHANGED <<use_plant_capacity, use_carbon_emission_factor,
                   use_labor_cost, use_maintenance_cost, prev, optVars>>

SetCostOfChemicals ==
    \E v \in cost_of_chemicals_per_m3_choices :
        /\ use_chemical_cost
        /\ v # cost_of_chemicals_per_m3
        /\ Run(feedwater_salinity, energy_use, treatment_efficiency,
               plant_capacity, intake_flow_rate, carbon_emission_factor,
               v, labor_cost_per_day, maintenance_cost_per_day)
        /\ UNCHANGED <<checkboxVars, prev, optVars>>

\* lines 41-45
ToggleLaborCost ==
    /\ use_labor_cost' = ~use_labor_cost
    /\ Run(feedwater_salinity, energy_use, treatment_efficiency,
           plant_capacity, intake_flow_rate, carbon_emission_factor,
           cost_of_chemicals_per_m3,
           IF use_labor_cost THEN Zero ELSE labor_cost_per_day_default,
           maintenance_cost_per_day)
    /\ UNCHANGED <<use_plant_capacity, use_carbon_emission_factor,
                   use_chemical_cost, use_maintenance_cost, prev, optVars>>

SetLaborCost ==
    \E v \in labor_cost_per_day_choices :
        /\ use_labor_cost
        /\ v # labor_cost_per_day
        /\ Run(feedwater_salinity, energy_use, treatment_efficiency,
               plant_capacity, intake_flow_rate, carbon_emission_factor,
               cost_of_chemicals_per_m3, v, maintenance_cost_per_day)
        /\ UNCHANGED <<checkboxVars, prev, optVars>>

\* lines 47-51
ToggleMaintenanceCost ==
    /\ use_maintenance_cost' = ~use_maintenance_cost
    /\ Run(feedwater_salinity, energy_use, treatment_efficiency,
           plant_capacity, intake_flow_rate, carbon_emission_factor,
           cost_of_chemicals_per_m3, labor_cost_per_day,
           IF use_maintenance_cost
               THEN Zero ELSE maintenance_cost_per_day_default)
    /\ UNCHANGED <<use_plant_capacity, use_carbon_emission_factor,
                   use_chemical_cost, use_labor_cost, prev, optVars>>

SetMaintenanceCost ==
    \E v \in maintenance_cost_per_day_choices :
        /\ use_maintenance_cost
        /\ v # maintenance_cost_per_day
        /\ Run(feedwater_salinity, energy_use, treatment_efficiency,
               plant_capacity, intake_flow_rate, carbon_emission_factor,
               cost_of_chemicals_per_m3, labor_cost_per_day, v)
        /\ UNCHANGED <<checkboxVars, prev, optVars>>

Next ==
    \/ SetFeedwaterSalinity
    \/ SetEnergyUse
    \/ SetTreatmentEfficiency
    \/ SetIntakeFlowRate
    \/ TogglePlantCapacity
    \/ SetPlantCapacity
    \/ ToggleCarbonEmissionFactor
    \/ SetCarbonEmissionFactor
    \/ ToggleChemicalCost
    \/ SetCostOfChemicals
    \/ ToggleLaborCost
    \/ SetLaborCost
    \/ ToggleMaintenanceCost
    \/ SetMaintenanceCost

Spec == Init /\ [][Next]_vars

(***************************************************************************)
(* calculate_outputs called directly, outside the slider ranges.           *)
(* Efficiencies run from -25 to 25 * MaxEffIndex - 25 in steps of 25, so   *)
(* both ends of [0, 100] and values beyond either end are covered.  prev   *)
(* records the call before the current one.                                *)
(***************************************************************************)
MaxEffIndex == 6

CoreEfficiencies == {R(25 * k - 25, 1) : k \in 0..MaxEffIndex}

CoreFlows == {R(0, 1), R(121, 10), R(100, 1)}

CoreEnergies == {R(0, 1), R(2, 1), R(35, 10)}

\* <<carbon_emission_factor, cost_of_chemicals_per_m3, labor_cost_per_day,
\*   maintenance_cost_per_day>>
CoreCosts ==
    {<<R(0, 1), R(0, 1), R(0, 1), R(0, 1)>>,
     <<R(5, 10), R(25, 100), R(500, 1), R(200, 1)>>,
     <<R(1, 10), R(1, 1), R(0, 1), R(50, 1)>>}

\* <<feedwater_salinity, plant_capacity>>
CoreUnused ==
    {<<R(35000, 1), R(10000, 1)>>,
     <<R(1000, 1), None>>,
     <<R(35000, 1), None>>}

CoreInit ==
    \E te \in CoreEfficiencies, ifr \in CoreFlows, eu \in CoreEnergies,
       c \in CoreCosts, u \in CoreUnused :
        /\ feedwater_salinity = u[1]
        /\ energy_use = eu
        /\ treatment_efficiency = te
        /\ plant_capacity = u[2]
        /\ intake_flow_rate = ifr
        /\ carbon_emission_factor = c[1]
        /\ cost_of_chemicals_per_m3 = c[2]
        /\ labor_cost_per_day = c[3]
        /\ maintenance_cost_per_day = c[4]
        /\ \E o \in {calculate_outputs(u[1], eu, te, u[2], ifr,
                                        c[1], c[2], c[3], c[4])} :
               /\ freshwater_production = o[1]
               /\ waste_brine = o[2]
               /\ energy_cost = o[3]
               /\ daily_freshwater_production = o[4]
               /\ carbon_emissions = o[5]
               /\ total_operational_cost = o[6]
        /\ use_plant_capacity = (u[2] # None)
        /\ use_carbon_emission_factor = TRUE
        /\ use_chemical_cost = TRUE
        /\ use_labor_cost = TRUE
        /\ use_maintenance_cost = TRUE
        /\ prev = [args |-> <<>>, out |-> <<>>]
        /\ optIdle

\* a further call; the call it replaces becomes prev
Call(fs, eu, te, pc, ifr, cef, cc, lc, mc) ==
    /\ Run(fs, eu, te, pc, ifr, cef, cc, lc, mc)
    /\ prev' = [args |-> inputVars, out |-> outputVars]
    /\ use_plant_capacity' = (pc # None)
    /\ UNCHANGED <<use_carbon_emission_factor, use_chemical_cost,
                   use_labor_cost, use_maintenance_cost, optVars>>

CallOtherEfficiency ==
    \E v \in CoreEfficiencies :
        /\ v # treatment_efficiency
        /\ Call(feedwater_salinity, energy_use, v, plant_capacity,
                intake_flow_rate, carbon_emission_factor,
                cost_of_chemicals_per_m3, labor_cost_per_day,
                maintenance_cost_per_day)

CallOtherEnergy ==
    \E v \in CoreEnergies :
        /\ v # energy_use
        /\ Call(feedwater_salinity, v, treatment_efficiency, plant_capacity,
                intake_flow_rate, carbon_emission_factor,
                cost_of_chemicals_per_m3, labor_cost_per_day,
                maintenance_cost_per_day)

CallOtherFlow ==
    \E v \in CoreFlows :
        /\ v # intake_flow_rate
        /\ Call(feedwater_salinity, energy_use, treatment_efficiency,
                plant_capacity, v, carbon_emission_factor,
                cost_of_chemicals_per_m3, labor_cost_per_day,
                maintenance_cost_per_day)

CallOtherCosts ==
    \E c \in CoreCosts :
        /\ c # <<carbon_emission_factor, cost_of_chemicals_per_m3,
                 labor_cost_per_day, maintenance_cost_per_day>>
        /\ Call(feedwater_salinity, energy_use, treatment_efficiency,
                plant_capacity, intake_flow_rate, c[1], c[2], c[3], c[4])

CallOtherUnused ==
    \E u \in CoreUnused :
        /\ u # <<feedwater_salinity, plant_capacity>>
        /\ Call(u[1], energy_use, treatment_efficiency, u[2],
                intake_flow_rate, carbon_emission_factor,
                cost_of_chemicals_per_m3, labor_cost_per_day,
                maintenance_cost_per_day)

CallAgain ==
    Call(feedwater_salinity, energy_use, treatment_efficiency,
         plant_capacity, intake_flow_rate, carbon_emission_factor,
         cost_of_chemicals_per_m3, labor_cost_per_day,
         maintenance_cost_per_day)

CoreNext ==
    \/ CallOtherEfficiency
    \/ CallOtherEnergy
    \/ CallOtherFlow
    \/ CallOtherCosts
    \/ CallOtherUnused
    \/ CallAgain

CoreSpec == CoreInit /\ [][CoreNext]_vars

(***************************************************************************)
(* The grid search findOptimalParameters.  It runs once per render, after  *)
(* the primary evaluation and on the same fixed context: every parameter   *)
(* but energy use and treatment efficiency.                                *)
(*                                                                         *)
(*     min_cost = inf; optimal_efficiency = optimal_energy_use = None      *)
(*     for energy in 50 evenly spaced points of [2.0, 10.0]:               *)
(*         for efficiency in 30, 35, ..., 90:                              *)
(*             total_cost = calculate_outputs(..., energy, efficiency,     *)
(*                                            ...)[total_operational_cost] *)
(*             if total_cost < min_cost:                                   *)
(*                 min_cost, optimal_efficiency, optimal_energy_use =      *)
(*                     total_cost, efficiency, energy                      *)
(*                                                                         *)
(* opt_i and opt_j are the positions of the outer and the inner loop.      *)
(***************************************************************************)
NumEnergyPoints == 50

NumEfficiencyPoints == 13

\* point i (from 0) of the energy axis: 2 + i * (10 - 2) / (50 - 1)
energy_grid(i) == RAdd(R(2, 1), R(i * (10 - 2), NumEnergyPoints - 1))

\* point j (from 0) of the efficiency axis: 30 + 5 * j
efficiency_grid(j) == R(30 + 5 * j, 1)

\* total_operational_cost of the grid point (i, j) in the current context
grid_cost(i, j) ==
    calculate_outputs(feedwater_salinity, energy_grid(i), efficiency_grid(j),
                      plant_capacity, intake_flow_rate,
                      carbon_emission_factor, cost_of_chemicals_per_m3,
                      labor_cost_per_day, maintenance_cost_per_day)[6]

\* a slip: a tie replaces the best so far
improves_or_ties(total_cost, best) == RLe(total_cost, best)

\* the comparison that replaces the best so far
improves(total_cost, best) == RLt(total_cost, best)

\* <<intake_flow_rate, carbon_emission_factor, cost_of_chemicals_per_m3,
\*   labor_cost_per_day, maintenance_cost_per_day>>.  The first is the
\* default context of the sidebar.  The others leave the slider ranges, which
\* the core does not validate: with no intake every grid point costs the
\* same, with a negative intake the cost falls along both axes, and with the
\* chemical cost at -0.24 the whole first row of the grid costs the same.
OptContexts ==
    {<<R(100, 1), R(5, 10), R(25, 100), R(500, 1), R(200, 1)>>,
     <<R(0, 1), R(5, 10), R(25, 100), R(500, 1), R(200, 1)>>,
     <<R(-50, 1), R(5, 10), R(25, 100), R(500, 1), R(200, 1)>>,
     <<R(100, 1), R(0, 1), R(-24, 100), R(0, 1), R(0, 1)>>}

OptInit ==
    \E c \in OptContexts :
        /\ feedwater_salinity = feedwater_salinity_default
        /\ energy_use = energy_use_default
        /\ treatment_efficiency = treatment_efficiency_default
        /\ plant_capacity = plant_capacity_default
        /\ intake_flow_rate = c[1]
        /\ carbon_emission_factor = c[2]
        /\ cost_of_chemicals_per_m3 = c[3]
        /\ labor_cost_per_day = c[4]
        /\ maintenance_cost_per_day = c[5]
        /\ \E o \in {calculate_outputs(feedwater_salinity_default,
                        energy_use_default, treatment_efficiency_default,
                        plant_capacity_default, c[1], c[2], c[3], c[4],
                        c[5])} :
               /\ freshwater_production = o[1]
               /\ waste_brine = o[2]
               /\ energy_cost = o[3]
               /\ daily_freshwater_production = o[4]
               /\ carbon_emissions = o[5]
               /\ total_operational_cost = o[6]
        /\ use_plant_capacity = TRUE
        /\ use_carbon_emission_factor = TRUE
        /\ use_chemical_cost = TRUE
        /\ use_labor_cost = TRUE
        /\ use_maintenance_cost = TRUE
        /\ prev = [args |-> <<>>, out |-> <<>>]
        /\ optIdle

\* the assignments before the loops
OptStart ==
    /\ opt_pc = "idle"
    /\ opt_pc' = "running"
    /\ opt_i' = 0
    /\ opt_j' = 0
    /\ min_cost' = Inf
    /\ optimal_efficiency' = None
    /\ optimal_energy_use' = None
    /\ UNCHANGED <<inputVars, checkboxVars, outputVars, prev>>

\* one pass through the body of the inner loop, then on to the next point
OptStep ==
    /\ opt_pc = "running"
    /\ opt_i < NumEnergyPoints
    /\ \E total_cost \in {grid_cost(opt_i, opt_j)} :
           IF improves(total_cost, min_cost)
               THEN /\ min_cost' = total_cost
                    /\ optimal_efficiency' = efficiency_grid(opt_j)
                    /\ optimal_energy_use' = energy_grid(opt_i)
               ELSE UNCHANGED <<min_cost, optimal_efficiency,
                                optimal_energy_use>>
    /\ IF opt_j + 1 < NumEfficiencyPoints
           THEN opt_j' = opt_j + 1 /\ opt_i' = opt_i
           ELSE opt_j' = 0 /\ opt_i' = opt_i + 1
    /\ UNCHANGED <<opt_pc, inputVars, checkboxVars, outputVars, prev>>

\* both loops exhausted: the best so far is returned
OptReturn ==
    /\ opt_pc = "running"
    /\ opt_i = NumEnergyPoints
    /\ opt_pc' = "done"
    /\ UNCHANGED <<opt_i, opt_j, min_cost, optimal_efficiency,
                   optimal_energy_use, inputVars, checkboxVars, outputVars,
                   prev>>

OptNext ==
    \/ OptStart
    \/ OptStep
    \/ OptReturn

OptSpec == OptInit /\ [][OptNext]_vars

(***************************************************************************)
(* Properties.                                                             *)
(***************************************************************************)
IsNumber(x) == Len(x) = 2 /\ x[1] \in Int /\ x[2] \in Int /\ x[2] > 0

HasPrev == prev.args # <<>>

\* the previous and the current call agree on every argument outside idxs
SameExcept(idxs) == \A k \in (1..9) \ idxs : prev.args[k] = inputVars[k]

Hundred == R(100, 1)

\* C1: with treatment_efficiency in [0, 100] and intake_flow_rate >= 0,
\* freshwater_production + waste_brine is intake_flow_rate.
MassBalance ==
    (/\ RLe(Zero, treatment_efficiency)
     /\ RLe(treatment_efficiency, Hundred)
     /\ RLe(Zero, intake_flow_rate))
        => RAdd(freshwater_production, waste_brine) = intake_flow_rate

MassBalanceWitness ==
    /\ HasPrev
    /\ treatment_efficiency = R(25, 1)
    /\ intake_flow_rate = R(121, 10)
    /\ freshwater_production = R(121, 40)
    /\ waste_brine = R(363, 40)

\* C2: on the default slider values (energy use 3.5, efficiency 50, intake
\* 100, emission factor 0.5, chemicals 0.25, labor 500, maintenance 200) the
\* results are 50, 50, 0.42, 1200, 2100 and 1504.
DefaultScenario ==
    (/\ energy_use = R(35, 10)
     /\ treatment_efficiency = R(50, 1)
     /\ intake_flow_rate = R(100, 1)
     /\ carbon_emission_factor = R(5, 10)
     /\ cost_of_chemicals_per_m3 = R(25, 100)
     /\ labor_cost_per_day = R(500, 1)
     /\ maintenance_cost_per_day = R(200, 1))
        => outputVars = <<R(50, 1), R(50, 1), R(42, 100), R(1200, 1),
                          R(2100, 1), R(1504, 1)>>

\* the default scenario again, reached by moving sliders away and back
DefaultScenarioWitness ==
    /\ energy_use = R(35, 10)
    /\ treatment_efficiency = R(50, 1)
    /\ intake_flow_rate = R(100, 1)
    /\ carbon_emission_factor = R(5, 10)
    /\ cost_of_chemicals_per_m3 = R(25, 100)
    /\ labor_cost_per_day = R(500, 1)
    /\ maintenance_cost_per_day = R(200, 1)
    /\ feedwater_salinity = R(1000, 1)
    /\ ~use_plant_capacity
    /\ total_operational_cost = R(1504, 1)

\* (i2, j2) is visited before (i, j): energy use is the outer loop
VisitedBefore(i2, j2, i, j) == i2 < i \/ (i2 = i /\ j2 < j)

\* C3: the search returns a cost that no grid point undercuts, and the pair
\* returned is the first point, energy use outermost, that attains it.
GridSearchMinimum ==
    opt_pc = "done" =>
        /\ \A i \in 0..(NumEnergyPoints - 1),
              j \in 0..(NumEfficiencyPoints - 1) :
               RLe(min_cost, grid_cost(i, j))
        /\ \E i \in 0..(NumEnergyPoints - 1),
              j \in 0..(NumEfficiencyPoints - 1) :
               /\ optimal_energy_use = energy_grid(i)
               /\ optimal_efficiency = efficiency_grid(j)
               /\ grid_cost(i, j) = min_cost
               /\ \A i2 \in 0..i, j2 \in 0..(NumEfficiencyPoints - 1) :
                      VisitedBefore(i2, j2, i, j)
                          => RLt(min_cost, grid_cost(i2, j2))

\* a finished search where the whole first row of the grid ties
GridSearchMinimumWitness ==
    /\ opt_pc = "done"
    /\ cost_of_chemicals_per_m3 = R(-24, 100)
    /\ grid_cost(0, 0) = grid_cost(0, NumEfficiencyPoints - 1)
    /\ min_cost = grid_cost(0, 0)
    /\ optimal_efficiency = R(30, 1)
    /\ optimal_energy_use = R(2, 1)

DefaultContext ==
    /\ intake_flow_rate = R(100, 1)
    /\ carbon_emission_factor = R(5, 10)
    /\ cost_of_chemicals_per_m3 = R(25, 100)
    /\ labor_cost_per_day = R(500, 1)
    /\ maintenance_cost_per_day = R(200, 1)

\* C4: in the default context the search returns efficiency 30 and energy
\* use 2.0, at a cost below the 1504 of the evaluation at energy use 3.5 and
\* efficiency 50.
OptimizerScenario ==
    (/\ opt_pc = "done"
     /\ DefaultContext
     /\ energy_use = R(35, 10)
     /\ treatment_efficiency = R(50, 1))
        => /\ optimal_efficiency = R(30, 1)
           /\ optimal_energy_use = R(2, 1)
           /\ total_operational_cost = R(1504, 1)
           /\ RLt(min_cost, total_operational_cost)

OptimizerScenarioWitness ==
    /\ opt_pc = "done"
    /\ DefaultContext
    /\ min_cost = R(10528, 10)

\* C5 as stated: of two calls that differ only in treatment_efficiency, the
\* one with the larger efficiency has the strictly larger
\* freshwater_production and the strictly smaller waste_brine.
EfficiencyMonotoneAnyFlow ==
    (/\ HasPrev
     /\ SameExcept({3})
     /\ RLt(prev.args[3], treatment_efficiency))
        => /\ RLt(prev.out[1], freshwater_production)
           /\ RLt(waste_brine, prev.out[2])

\* C5 amended: the same, for a positive intake_flow_rate.
EfficiencyMonotone ==
    (/\ HasPrev
     /\ SameExcept({3})
     /\ RLt(prev.args[3], treatment_efficiency)
     /\ RLt(Zero, intake_flow_rate))
        => /\ RLt(prev.out[1], freshwater_production)
           /\ RLt(waste_brine, prev.out[2])

EfficiencyMonotoneWitness ==
    /\ HasPrev
    /\ SameExcept({3})
    /\ prev.args[3] = R(25, 1)
    /\ treatment_efficiency = R(50, 1)
    /\ intake_flow_rate = R(100, 1)
    /\ prev.out[1] = R(25, 1)
    /\ freshwater_production = R(50, 1)

\* C6: of two calls that differ only in energy_use, the one with the larger
\* energy use has the strictly larger energy_cost and, when
\* daily_freshwater_production is positive, the strictly larger
\* total_operational_cost.
EnergyMonotone ==
    (/\ HasPrev
     /\ SameExcept({2})
     /\ RLt(prev.args[2], energy_use))
        => /\ RLt(prev.out[3], energy_cost)
           /\ RLt(Zero, daily_freshwater_production)
                  => RLt(prev.out[6], total_operational_cost)

EnergyMonotoneWitness ==
    /\ HasPrev
    /\ SameExcept({2})
    /\ prev.args[2] = R(2, 1)
    /\ energy_use = R(35, 10)
    /\ RLt(Zero, daily_freshwater_production)
    /\ RLt(prev.out[6], total_operational_cost)

\* C7: two calls that agree on every argument but feedwater_salinity and
\* plant_capacity (None included) return the same six metrics; so does a
\* repeated call.
UnusedParametersIgnored ==
    (HasPrev /\ SameExcept({1, 4})) => prev.out = outputVars

UnusedParametersIgnoredWitness ==
    /\ HasPrev
    /\ SameExcept({1, 4})
    /\ prev.args[1] # feedwater_salinity
    /\ prev.args[4] # None
    /\ plant_capacity = None
    /\ RLt(Zero, total_operational_cost)
    /\ prev.out = outputVars

\* C8: with energy_use 0, energy_cost is 0 and total_operational_cost is
\* cost_of_chemicals_per_m3 * daily_freshwater_production
\* + labor_cost_per_day + maintenance_cost_per_day.
ZeroEnergy ==
    energy_use = Zero =>
        /\ energy_cost = Zero
        /\ total_operational_cost =
               RAdd(RAdd(RMul(cost_of_chemicals_per_m3,
                              daily_freshwater_production),
                         labor_cost_per_day),
                    maintenance_cost_per_day)

ZeroEnergyWitness ==
    /\ HasPrev
    /\ prev.args[2] # Zero
    /\ energy_use = Zero
    /\ RLt(Zero, daily_freshwater_production)
    /\ RLt(Zero, cost_of_chemicals_per_m3)
    /\ RLt(total_operational_cost, prev.out[6])

\* C9: with the carbon checkbox off the emission factor is 0, and with an
\* emission factor of 0 carbon_emissions is 0.
CarbonDisabled ==
    /\ ~use_carbon_emission_factor => carbon_emission_factor = Zero
    /\ carbon_emission_factor = Zero => carbon_emissions = Zero

CarbonDisabledWitness ==
    /\ ~use_carbon_emission_factor
    /\ energy_use = R(10, 1)
    /\ intake_flow_rate = R(500, 1)
    /\ RLt(Zero, daily_freshwater_production)
    /\ carbon_emissions = Zero

OutOfDomain ==
    RLt(treatment_efficiency, Zero) \/ RLt(Hundred, treatment_efficiency)

\* C10 as stated: every call returns six numbers, and with
\* treatment_efficiency outside [0, 100] waste_brine is negative or
\* freshwater_production exceeds intake_flow_rate.
OutOfDomainVisible ==
    /\ \A k \in 1..6 : IsNumber(outputVars[k])
    /\ OutOfDomain =>
           \/ RLt(waste_brine, Zero)
           \/ RLt(intake_flow_rate, freshwater_production)

\* C10 amended: every call returns six numbers; with a positive
\* intake_flow_rate, an efficiency above 100 gives a negative waste_brine and
\* a freshwater_production above the intake, and an efficiency below 0 gives
\* a negative freshwater_production and a waste_brine above the intake.
OutOfDomainAccepted ==
    /\ \A k \in 1..6 : IsNumber(outputVars[k])
    /\ (RLt(Hundred, treatment_efficiency) /\ RLt(Zero, intake_flow_rate))
           => /\ RLt(waste_brine, Zero)
              /\ RLt(intake_flow_rate, freshwater_production)
    /\ (RLt(treatment_efficiency, Zero) /\ RLt(Zero, intake_flow_rate))
           => /\ RLt(freshwater_production, Zero)
              /\ RLt(intake_flow_rate, waste_brine)

OutOfDomainAcceptedWitness ==
    /\ HasPrev
    /\ treatment_efficiency = R(-25, 1)
    /\ intake_flow_rate = R(100, 1)
    /\ freshwater_production = R(-25, 1)
    /\ waste_brine = R(125, 1)

====
